---- MODULE Spec2Model ----
(***************************************************************************)
(* Model of dessser's C++ runtime support: the 128-bit integer <-> decimal *)
(* text codec (runtime.h), the Bytes view (Bytes.h) and the two Set        *)
(* implementations (SimpleSet.h, SlidingWindow.h).                         *)
(*                                                                         *)
(* Wide integers do not fit TLC's machine integers, so a natural number is *)
(* a sequence of decimal digits, most significant first, without leading   *)
(* zeros (zero is the empty sequence), and a signed integer is a record    *)
(* [neg, mag].  Text is a sequence of one-character strings.               *)
(***************************************************************************)
EXTENDS Integers, Sequences, FiniteSets, TLC

VARIABLES
  fmt_pc, fmt_kind, fmt_val, fmt_text, fmt_back,
  ps_pc, ps_in, ps_out,
  fc_pc, fc_fn, fc_buf, fc_ret,
  by_heap, by_objs, by_out,
  set_simple, set_window, set_ops, set_ret

vars == <<fmt_pc, fmt_kind, fmt_val, fmt_text, fmt_back,
          ps_pc, ps_in, ps_out,
          fc_pc, fc_fn, fc_buf, fc_ret,
          by_heap, by_objs, by_out,
          set_simple, set_window, set_ops, set_ret>>

fmt_vars == <<fmt_pc, fmt_kind, fmt_val, fmt_text, fmt_back>>
ps_vars == <<ps_pc, ps_in, ps_out>>
fc_vars == <<fc_pc, fc_fn, fc_buf, fc_ret>>
by_vars == <<by_heap, by_objs, by_out>>
set_vars == <<set_simple, set_window, set_ops, set_ret>>

----------------------------------------------------------------------------
(* Characters *)

DigitChars == <<"0", "1", "2", "3", "4", "5", "6", "7", "8", "9">>

is_sign(x) == x = "-" \/ x = "+"

is_digit(x) == \E k \in 1..10 : DigitChars[k] = x

DigitOfChar(c) == (CHOOSE k \in 1..10 : DigitChars[k] = c) - 1

CharOfDigit(d) == DigitChars[d + 1]

----------------------------------------------------------------------------
(* Arithmetic of the wide integer types on digit sequences *)

RECURSIVE NatNorm(_)
NatNorm(d) ==
  IF d = <<>> THEN <<>>
  ELSE IF Head(d) = 0 THEN NatNorm(Tail(d)) ELSE d

NatLT(a, b) ==
  \/ Len(a) < Len(b)
  \/ /\ Len(a) = Len(b)
     /\ \E i \in 1..Len(a) :
          /\ a[i] < b[i]
          /\ \A j \in 1..(i - 1) : a[j] = b[j]

NatLE(a, b) == a = b \/ NatLT(a, b)

\* the i-th digit of a counted from the least significant one
DigitFromRight(a, i) == IF i <= Len(a) THEN a[Len(a) + 1 - i] ELSE 0

NatAdd(a, b) ==
  LET n == (IF Len(a) > Len(b) THEN Len(a) ELSE Len(b)) + 1
      carry[i \in 0..n] ==
        IF i = 0 THEN 0
        ELSE (DigitFromRight(a, i) + DigitFromRight(b, i) + carry[i - 1]) \div 10
      digit(i) ==
        (DigitFromRight(a, i) + DigitFromRight(b, i) + carry[i - 1]) % 10
  IN NatNorm([k \in 1..n |-> digit(n + 1 - k)])

\* a - b for a >= b
NatSub(a, b) ==
  LET n == Len(a)
      borrow[i \in 0..n] ==
        IF i = 0 THEN 0
        ELSE IF DigitFromRight(a, i) - DigitFromRight(b, i) - borrow[i - 1] < 0
             THEN 1 ELSE 0
      digit(i) ==
        (DigitFromRight(a, i) - DigitFromRight(b, i) - borrow[i - 1] + 10) % 10
  IN NatNorm([k \in 1..n |-> digit(n + 1 - k)])

IsPow10(p) ==
  /\ Len(p) >= 1
  /\ p[1] = 1
  /\ \A i \in 2..Len(p) : p[i] = 0

\* a * p, a / p and a % p for p a power of ten (P10_UINT64, P10_INT64)
NatMulP10(a, p) ==
  IF a = <<>> THEN <<>> ELSE a \o [i \in 1..(Len(p) - 1) |-> 0]

NatDivP10(a, p) ==
  IF Len(a) < Len(p) THEN <<>> ELSE SubSeq(a, 1, Len(a) - (Len(p) - 1))

NatModP10(a, p) ==
  IF Len(a) < Len(p) THEN a
  ELSE NatNorm(SubSeq(a, Len(a) - (Len(p) - 1) + 1, Len(a)))

MkInt(neg, mag) == [neg |-> neg /\ mag # <<>>, mag |-> mag]

IntZero == MkInt(FALSE, <<>>)

IntNeg(x) == MkInt(~x.neg, x.mag)

IntAdd(x, y) ==
  IF x.neg = y.neg THEN MkInt(x.neg, NatAdd(x.mag, y.mag))
  ELSE IF NatLE(y.mag, x.mag) THEN MkInt(x.neg, NatSub(x.mag, y.mag))
  ELSE MkInt(y.neg, NatSub(y.mag, x.mag))

IntSub(x, y) == IntAdd(x, IntNeg(y))

\* C++ division and remainder truncate toward zero
IntMulP10(x, p) == MkInt(x.neg, NatMulP10(x.mag, p))

IntDivP10(x, p) == MkInt(x.neg, NatDivP10(x.mag, p))

IntModP10(x, p) == MkInt(x.neg, NatModP10(x.mag, p))

IntLE(x, y) ==
  IF x.neg /\ ~y.neg THEN TRUE
  ELSE IF ~x.neg /\ y.neg THEN FALSE
  ELSE IF x.neg THEN NatLE(y.mag, x.mag)
  ELSE NatLE(x.mag, y.mag)

IntAbs(x) == x.mag

----------------------------------------------------------------------------
(* Limits of the integer types *)

UINT64_MAX == <<1,8,4,4,6,7,4,4,0,7,3,7,0,9,5,5,1,6,1,5>>

TWO64 == <<1,8,4,4,6,7,4,4,0,7,3,7,0,9,5,5,1,6,1,6>>

INT64_MAX == MkInt(FALSE, <<9,2,2,3,3,7,2,0,3,6,8,5,4,7,7,5,8,0,7>>)

INT64_MIN == MkInt(TRUE, <<9,2,2,3,3,7,2,0,3,6,8,5,4,7,7,5,8,0,8>>)

UINT128_MAX ==
  <<3,4,0,2,8,2,3,6,6,9,2,0,9,3,8,4,6,3,4,6,
    3,3,7,4,6,0,7,4,3,1,7,6,8,2,1,1,4,5,5>>

TWO128 ==
  <<3,4,0,2,8,2,3,6,6,9,2,0,9,3,8,4,6,3,4,6,
    3,3,7,4,6,0,7,4,3,1,7,6,8,2,1,1,4,5,6>>

INT128_MAX ==
  MkInt(FALSE, <<1,7,0,1,4,1,1,8,3,4,6,0,4,6,9,2,3,1,7,3,
               1,6,8,7,3,0,3,7,1,5,8,8,4,1,0,5,7,2,7>>)

INT128_MIN ==
  MkInt(TRUE, <<1,7,0,1,4,1,1,8,3,4,6,0,4,6,9,2,3,1,7,3,
              1,6,8,7,3,0,3,7,1,5,8,8,4,1,0,5,7,2,8>>)

InInt128(x) == IntLE(INT128_MIN, x) /\ IntLE(x, INT128_MAX)

\* unsigned 128-bit arithmetic wraps modulo 2^128
RECURSIVE WrapU128(_)
WrapU128(n) == IF NatLE(n, UINT128_MAX) THEN n ELSE WrapU128(NatSub(n, TWO128))

P10_UINT64 == <<1,0,0,0,0,0,0,0,0,0,0,0,0,0,0,0,0,0,0,0>>

E10_UINT64 == 19

P10_INT64 == <<1,0,0,0,0,0,0,0,0,0,0,0,0,0,0,0,0,0,0>>

E10_INT64 == 18

----------------------------------------------------------------------------
(* The standard library conversions the codec calls *)

\* std::string(n, c); a negative n is a size_t wrapped around, which the
\* constructor refuses with std::length_error
LengthError == <<"std::length_error">>

StdStringFill(n, c) == IF n < 0 THEN LengthError ELSE [i \in 1..n |-> c]

\* std::to_string of an unsigned / signed 64-bit value
to_string_u64(n) ==
  IF n = <<>> THEN <<"0">> ELSE [i \in 1..Len(n) |-> CharOfDigit(n[i])]

to_string_i64(x) ==
  IF x.neg THEN <<"-">> \o to_string_u64(x.mag) ELSE to_string_u64(x.mag)

\* length of the maximal run of digits of s that starts at position from
DigitRunLen(s, from) ==
  CHOOSE k \in 0..(Len(s) + 1 - from) :
    /\ \A j \in from..(from + k - 1) : is_digit(s[j])
    /\ from + k > Len(s) \/ ~is_digit(s[from + k])

DigitsOf(s) == NatNorm([i \in 1..Len(s) |-> DigitOfChar(s[i])])

Ok(v) == [st |-> "ok", val |-> v]

Fail(st, v) == [st |-> st, val |-> v]

\* std::stoull: optional sign, then the digits; no digit is
\* std::invalid_argument, a magnitude over ULLONG_MAX is std::out_of_range,
\* a minus sign negates in the unsigned type
stoull(s) ==
  LET sign == IF s # <<>> /\ is_sign(s[1]) THEN 1 ELSE 0
      run == DigitRunLen(s, sign + 1)
      mag == DigitsOf(SubSeq(s, sign + 1, sign + run))
  IN IF run = 0 THEN Fail("invalid_argument", <<>>)
     ELSE IF ~NatLE(mag, UINT64_MAX) THEN Fail("out_of_range", <<>>)
     ELSE IF sign = 1 /\ s[1] = "-" /\ mag # <<>> THEN Ok(NatSub(TWO64, mag))
     ELSE Ok(mag)

\* std::stoll: as above, in the signed 64-bit range
stoll(s) ==
  LET sign == IF s # <<>> /\ is_sign(s[1]) THEN 1 ELSE 0
      run == DigitRunLen(s, sign + 1)
      mag == DigitsOf(SubSeq(s, sign + 1, sign + run))
      v == MkInt(sign = 1 /\ s[1] = "-", mag)
  IN IF run = 0 THEN Fail("invalid_argument", IntZero)
     ELSE IF ~(IntLE(INT64_MIN, v) /\ IntLE(v, INT64_MAX))
          THEN Fail("out_of_range", IntZero)
     ELSE Ok(v)

----------------------------------------------------------------------------
(* runtime.h: 128-bit integers to and from decimal text *)

num_zeros_u128(u128) ==
  E10_UINT64 - Len(to_string_u64(NatModP10(u128, P10_UINT64)))

\* string_of_u128 without the zero padding of the low chunk
RECURSIVE string_of_u128_nopad(_)
string_of_u128_nopad(u128) ==
  IF NatLE(u128, UINT64_MAX) THEN to_string_u64(u128)
  ELSE string_of_u128_nopad(NatDivP10(u128, P10_UINT64))
         \o to_string_u64(NatModP10(u128, P10_UINT64))

RECURSIVE string_of_u128(_)
string_of_u128(u128) ==
  IF NatLE(u128, UINT64_MAX) THEN to_string_u64(u128)
  ELSE LET hi == NatDivP10(u128, P10_UINT64)
           lo == NatModP10(u128, P10_UINT64)
           ss == to_string_u64(lo)
           num_zeros == num_zeros_u128(u128)
       IN string_of_u128(hi) \o StdStringFill(num_zeros, "0") \o ss

RECURSIVE u128_of_string(_)
u128_of_string(s) ==
  LET len == Len(s) IN
  IF ~(len > 0) THEN Fail("assert", <<>>)
  ELSE IF len <= E10_UINT64 THEN stoull(s)
  ELSE LET hi_len == len - E10_UINT64
           hi == u128_of_string(SubSeq(s, 1, hi_len))
           lo == u128_of_string(SubSeq(s, hi_len + 1, hi_len + E10_UINT64))
       IN IF hi.st # "ok" THEN hi
          ELSE IF lo.st # "ok" THEN lo
          ELSE Ok(WrapU128(NatAdd(NatMulP10(hi.val, P10_UINT64), lo.val)))

num_zeros_i128(i128) ==
  E10_INT64 - Len(to_string_u64(IntAbs(IntModP10(i128, P10_INT64))))

\* string_of_i128 padding the low chunk to the unsigned width
RECURSIVE string_of_i128_pad19(_)
string_of_i128_pad19(i128) ==
  IF IntLE(INT64_MIN, i128) /\ IntLE(i128, INT64_MAX) THEN to_string_i64(i128)
  ELSE LET ss == to_string_u64(IntAbs(IntModP10(i128, P10_INT64)))
       IN string_of_i128_pad19(IntDivP10(i128, P10_INT64))
            \o StdStringFill(E10_UINT64 - Len(ss), "0") \o ss

RECURSIVE string_of_i128(_)
string_of_i128(i128) ==
  IF IntLE(INT64_MIN, i128) /\ IntLE(i128, INT64_MAX) THEN to_string_i64(i128)
  ELSE LET hi == IntDivP10(i128, P10_INT64)
           lo == IntModP10(i128, P10_INT64)
           ss == to_string_u64(IntAbs(lo))
           num_zeros == num_zeros_i128(i128)
       IN string_of_i128(hi) \o StdStringFill(num_zeros, "0") \o ss

\* max_len without the allowance for a leading sign
max_len_unsigned(s) == E10_INT64

\* the longest text i128_of_string hands to std::stoll whole
max_len(s) == E10_INT64 + (IF is_sign(s[1]) THEN 1 ELSE 0)

\* the combination that always adds the low chunk
CombineI128_always_add(hi, lo) ==
  LET prod == IntMulP10(hi, P10_INT64)
      sum == IntAdd(prod, lo)
  IN IF InInt128(prod) /\ InInt128(sum) THEN Ok(sum)
     ELSE Fail("overflow", IntZero)

\* signed 128-bit overflow is undefined: the outcome "overflow" stands for
\* whatever the build makes of it
CombineI128(hi, lo) ==
  LET prod == IntMulP10(hi, P10_INT64)
      sum == IF IntLE(IntZero, hi) THEN IntAdd(prod, lo) ELSE IntSub(prod, lo)
  IN IF InInt128(prod) /\ InInt128(sum) THEN Ok(sum)
     ELSE Fail("overflow", IntZero)

RECURSIVE i128_of_string(_)
i128_of_string(s) ==
  LET len == Len(s) IN
  IF ~(len > 0) THEN Fail("assert", IntZero)
  ELSE IF len <= max_len(s) THEN stoll(s)
  ELSE LET hi_len == len - E10_INT64
           hi == i128_of_string(SubSeq(s, 1, hi_len))
           lo == i128_of_string(SubSeq(s, hi_len + 1, hi_len + E10_INT64))
       IN IF hi.st # "ok" THEN hi
          ELSE IF lo.st # "ok" THEN lo
          ELSE CombineI128(hi.val, lo.val)

----------------------------------------------------------------------------
(* Inputs of the codec: the values around the 64-bit and 128-bit limits    *)
(* and the numbers head ++ fill ++ tail for a run of equal fill digits     *)

MaxFill == 36

Repeat(k, d) == [i \in 1..k |-> d]

Heads == {<<>>, <<1>>, <<9>>, <<1, 8>>, <<1, 7>>, <<3, 4>>}

Tails == {<<>>, <<0>>, <<5>>, <<1, 6>>}

FillDigits == {0, 9}

Pow10(k) == <<1>> \o Repeat(k, 0)

LimitSamples ==
  { <<>>, <<1>>, UINT64_MAX, TWO64, NatAdd(TWO64, <<1>>),
    INT64_MAX.mag, INT64_MIN.mag, NatAdd(INT64_MIN.mag, <<1>>),
    Pow10(18), Pow10(19), NatAdd(Pow10(19), <<5>>), NatSub(Pow10(19), <<1>>),
    NatSub(Pow10(18), <<1>>), Pow10(37), Pow10(38),
    INT128_MAX.mag, INT128_MIN.mag, UINT128_MAX, NatSub(UINT128_MAX, <<1>>) }

Samples ==
  LimitSamples \cup
  { NatNorm(h \o Repeat(k, d) \o t) :
      h \in Heads, k \in 0..MaxFill, d \in FillDigits, t \in Tails }

U128Inputs == { MkInt(FALSE, n) : n \in { m \in Samples : NatLE(m, UINT128_MAX) } }

I128Inputs ==
  { x \in { MkInt(neg, n) : neg \in BOOLEAN, n \in Samples } : InInt128(x) }

----------------------------------------------------------------------------
(* Idle values of the parts a specification does not exercise *)

FmtIdle ==
  /\ fmt_pc = "idle" /\ fmt_kind = "none" /\ fmt_val = IntZero
  /\ fmt_text = <<>> /\ fmt_back = Fail("none", IntZero)

PsIdle == ps_pc = "idle" /\ ps_in = <<>> /\ ps_out = Fail("none", IntZero)

FcIdle ==
  /\ fc_pc = "idle" /\ fc_fn = "none" /\ fc_buf = <<>>
  /\ fc_ret = [st |-> "none", count |-> 0, res |-> IntZero, written |-> FALSE,
               called |-> FALSE]

ByIdle ==
  /\ by_heap = <<>> /\ by_objs = {}
  /\ by_out = [op |-> "none", st |-> "none", s |-> <<>>]

SetIdle ==
  /\ set_simple = <<>> /\ set_window = <<>> /\ set_ops = <<>>
  /\ set_ret = [simple |-> <<"none">>, window |-> <<"none">>]

----------------------------------------------------------------------------
(* Format then parse: string_of_u128, u128_of_string, string_of_i128,      *)
(* i128_of_string applied to a value drawn by Init                         *)

InitFormat ==
  /\ fmt_pc = "start"
  /\ \E k \in {"u", "i"} :
       /\ fmt_kind = k
       /\ fmt_val \in (IF k = "u" THEN U128Inputs ELSE I128Inputs)
  /\ fmt_text = <<>>
  /\ fmt_back = Fail("none", IntZero)
  /\ PsIdle /\ FcIdle /\ ByIdle /\ SetIdle

FormatU ==
  /\ fmt_pc = "start" /\ fmt_kind = "u"
  /\ fmt_text' = string_of_u128(fmt_val.mag)
  /\ fmt_pc' = "formatted"
  /\ UNCHANGED <<fmt_kind, fmt_val, fmt_back, ps_vars, fc_vars, by_vars, set_vars>>

ParseU ==
  /\ fmt_pc = "formatted" /\ fmt_kind = "u"
  /\ fmt_back' = u128_of_string(fmt_text)
  /\ fmt_pc' = "parsed"
  /\ UNCHANGED <<fmt_kind, fmt_val, fmt_text, ps_vars, fc_vars, by_vars, set_vars>>

FormatI ==
  /\ fmt_pc = "start" /\ fmt_kind = "i"
  /\ fmt_text' = string_of_i128(fmt_val)
  /\ fmt_pc' = "formatted"
  /\ UNCHANGED <<fmt_kind, fmt_val, fmt_back, ps_vars, fc_vars, by_vars, set_vars>>

ParseI ==
  /\ fmt_pc = "formatted" /\ fmt_kind = "i"
  /\ fmt_back' = i128_of_string(fmt_text)
  /\ fmt_pc' = "parsed"
  /\ UNCHANGED <<fmt_kind, fmt_val, fmt_text, ps_vars, fc_vars, by_vars, set_vars>>

NextFormat == FormatU \/ ParseU \/ FormatI \/ ParseI

SpecFormat == InitFormat /\ [][NextFormat]_vars

----------------------------------------------------------------------------
(* Properties of the format / parse round trip (SpecFormat) *)

\* C1: parsing the text of an unsigned 128-bit value with u128_of_string
\* gives the value back, for every value of [0, 2^128 - 1]
RoundTripUnsigned ==
  (fmt_kind = "u" /\ fmt_pc = "parsed") => fmt_back = Ok(fmt_val.mag)

\* the largest 64-bit value: formatted whole as 20 digits, parsed in two chunks
RoundTripUnsignedWitness ==
  /\ fmt_kind = "u" /\ fmt_pc = "parsed"
  /\ fmt_val.mag = UINT64_MAX
  /\ Len(fmt_text) = E10_UINT64 + 1
  /\ fmt_back = Ok(UINT64_MAX)

\* C2: parsing the text of a signed 128-bit value with i128_of_string gives
\* the value back and no intermediate value leaves the signed 128-bit range
\* (the parse ends "ok", not "overflow")
RoundTripSigned ==
  (fmt_kind = "i" /\ fmt_pc = "parsed") => fmt_back = Ok(fmt_val)

\* the least signed value went through both levels of the recursion
RoundTripSignedWitness ==
  /\ fmt_kind = "i" /\ fmt_pc = "parsed"
  /\ fmt_val = INT128_MIN
  /\ Len(fmt_text) = 2 * E10_INT64 + 4
  /\ fmt_back = Ok(INT128_MIN)

SplitU == fmt_kind = "u" /\ ~NatLE(fmt_val.mag, UINT64_MAX)

SplitI ==
  fmt_kind = "i" /\ ~(IntLE(INT64_MIN, fmt_val) /\ IntLE(fmt_val, INT64_MAX))

\* text ends with exactly width digit characters that spell lo, after the
\* text hi_text
EndsWithChunk(text, hi_text, width, lo) ==
  LET n == Len(text) IN
  /\ n > width
  /\ SubSeq(text, 1, n - width) = hi_text
  /\ \A j \in (n - width + 1)..n : is_digit(text[j])
  /\ DigitsOf(SubSeq(text, n - width + 1, n)) = lo

\* C3: in the split branch the text is the formatted high part followed by
\* exactly 19 (unsigned) / 18 (signed) digits spelling the magnitude of the
\* low chunk, and the pad count is not negative
ZeroPadding ==
  fmt_pc # "start" =>
    /\ SplitU =>
         /\ num_zeros_u128(fmt_val.mag) >= 0
         /\ EndsWithChunk(fmt_text,
                          string_of_u128(NatDivP10(fmt_val.mag, P10_UINT64)),
                          E10_UINT64, NatModP10(fmt_val.mag, P10_UINT64))
    /\ SplitI =>
         /\ num_zeros_i128(fmt_val) >= 0
         /\ EndsWithChunk(fmt_text,
                          string_of_i128(IntDivP10(fmt_val, P10_INT64)),
                          E10_INT64, NatModP10(fmt_val.mag, P10_INT64))

\* a negative value formatted in the split branch with zeros actually padded
ZeroPaddingWitness ==
  /\ fmt_pc = "formatted" /\ SplitI /\ fmt_val.neg
  /\ num_zeros_i128(fmt_val) > 0
  /\ fmt_text[Len(fmt_text) - E10_INT64 + 1] = "0"

----------------------------------------------------------------------------
(* i128_of_string applied to text drawn by Init: an optional sign and one  *)
(* or more digits, leading zeros allowed                                   *)

\* the high substrings the call for s and the calls below it compute
RECURSIVE i128_of_string_his(_)
i128_of_string_his(s) ==
  LET len == Len(s) IN
  IF ~(len > 0) THEN {}
  ELSE IF len <= max_len(s) THEN {}
  ELSE LET hi_len == len - E10_INT64
           hi_s == SubSeq(s, 1, hi_len)
           lo_s == SubSeq(s, hi_len + 1, hi_len + E10_INT64)
       IN {hi_s} \cup i128_of_string_his(hi_s)
            \cup (IF i128_of_string(hi_s).st = "ok"
                  THEN i128_of_string_his(lo_s) ELSE {})

TextSigns == {<<>>, <<"-">>, <<"+">>}

DigitTexts ==
  { [i \in 1..Len(n) |-> CharOfDigit(n[i])] :
      n \in { h \o Repeat(k, d) \o t :
                h \in Heads, k \in 0..MaxFill, d \in FillDigits, t \in Tails }
            \ {<<>>} }

TextInputs == { sg \o ds : sg \in TextSigns, ds \in DigitTexts }

InitParse ==
  /\ ps_pc = "start"
  /\ ps_in \in TextInputs
  /\ ps_out = Fail("none", IntZero)
  /\ FmtIdle /\ FcIdle /\ ByIdle /\ SetIdle

ParseText ==
  /\ ps_pc = "start"
  /\ ps_out' = i128_of_string(ps_in)
  /\ ps_pc' = "done"
  /\ UNCHANGED <<ps_in, fmt_vars, fc_vars, by_vars, set_vars>>

NextParse == ParseText

SpecParse == InitParse /\ [][NextParse]_vars

HasSign(s) == s # <<>> /\ is_sign(s[1])

\* the integer a text of an optional sign and digits denotes
Denoted(s) ==
  LET sign == IF HasSign(s) THEN 1 ELSE 0
  IN MkInt(sign = 1 /\ s[1] = "-", DigitsOf(SubSeq(s, sign + 1, Len(s))))

SignAlone(h) == Len(h) = 1 /\ is_sign(h[1])

\* the lengths at which len - 18 leaves one character: a sign and a
\* positive multiple of 18 digits
AtChunkBoundary(s) == HasSign(s) /\ Len(s) > 1 /\ (Len(s) - 1) % E10_INT64 = 0

ParsesDenoted ==
  (ps_pc = "done" /\ InInt128(Denoted(ps_in))) =>
    /\ ps_out = Ok(Denoted(ps_in))
    /\ ps_in[1] = "-" => IntLE(ps_out.val, IntZero)

----------------------------------------------------------------------------
(* i128_from_chars and u128_from_chars over a character range [start, stop)*)
(* held as the sequence fc_buf.  The assert lines are compiled in: a       *)
(* failed assertion ends the call, and the outcome names it                *)

\* the loop for (; start + count < stop && is_digit(start[count]); count++)
RECURSIVE ScanDigits(_, _)
ScanDigits(buf, count) ==
  IF count < Len(buf) /\ is_digit(buf[count + 1])
  THEN ScanDigits(buf, count + 1)
  ELSE count

\* (uint128_t) of a signed 128-bit value
CastU128(x) ==
  IF x.neg THEN MkInt(FALSE, NatSub(TWO128, x.mag)) ELSE MkInt(FALSE, x.mag)

FcFail(st, called) ==
  [st |-> st, count |-> 0, res |-> IntZero, written |-> FALSE, called |-> called]

\* the scan that starts again from the first character, sign or not
i128_from_chars_rescan(buf) ==
  IF ~(Len(buf) > 0) THEN FcFail("assert(stop > start)", FALSE)
  ELSE LET count == ScanDigits(buf, 0)
       IN IF ~(count > 0) THEN FcFail("assert(count > 0)", FALSE)
          ELSE LET r == i128_of_string(SubSeq(buf, 1, count))
               IN IF r.st # "ok" THEN FcFail(r.st, TRUE)
                  ELSE [st |-> "ok", count |-> count, res |-> r.val,
                        written |-> TRUE, called |-> TRUE]

i128_from_chars(buf) ==
  IF ~(Len(buf) > 0) THEN FcFail("assert(stop > start)", FALSE)
  ELSE LET count == ScanDigits(buf, IF is_sign(buf[1]) THEN 1 ELSE 0)
       IN IF ~(count > 0) THEN FcFail("assert(count > 0)", FALSE)
          ELSE LET r == i128_of_string(SubSeq(buf, 1, count))
               IN IF r.st # "ok" THEN FcFail(r.st, TRUE)
                  ELSE [st |-> "ok", count |-> count, res |-> r.val,
                        written |-> TRUE, called |-> TRUE]

\* the loop's initialisation count = 0 discards the sign that was counted
u128_from_chars(buf) ==
  IF ~(Len(buf) > 0) THEN FcFail("assert(stop > start)", FALSE)
  ELSE LET count == ScanDigits(buf, 0)
       IN IF ~(count > 0) THEN FcFail("assert(count > 0)", FALSE)
          ELSE LET r == i128_of_string(SubSeq(buf, 1, count))
               IN IF r.st # "ok" THEN FcFail(r.st, TRUE)
                  ELSE [st |-> "ok", count |-> count, res |-> CastU128(r.val),
                        written |-> TRUE, called |-> TRUE]

MaxRun == 21

RunDigits == {"0", "1", "9"}

RangeHeads == {<<>>, <<"1", "2", "3">>, <<"0">>, <<"7">>}

RangeRests ==
  {<<>>, <<"a", "b", "c">>, <<"a">>, <<"-">>, <<"+", "1">>, <<" ", "4">>,
   <<".", "5">>}

RangeInputs ==
  { sg \o h \o Repeat(k, d) \o r :
      sg \in TextSigns, h \in RangeHeads, k \in 0..MaxRun, d \in RunDigits,
      r \in RangeRests }

InitChars ==
  /\ fc_pc = "start"
  /\ fc_fn \in {"i128_from_chars", "u128_from_chars"}
  /\ fc_buf \in RangeInputs
  /\ fc_ret = FcFail("none", FALSE)
  /\ FmtIdle /\ PsIdle /\ ByIdle /\ SetIdle

CallI128FromChars ==
  /\ fc_pc = "start" /\ fc_fn = "i128_from_chars"
  /\ fc_ret' = i128_from_chars(fc_buf)
  /\ fc_pc' = "done"
  /\ UNCHANGED <<fc_fn, fc_buf, fmt_vars, ps_vars, by_vars, set_vars>>

CallU128FromChars ==
  /\ fc_pc = "start" /\ fc_fn = "u128_from_chars"
  /\ fc_ret' = u128_from_chars(fc_buf)
  /\ fc_pc' = "done"
  /\ UNCHANGED <<fc_fn, fc_buf, fmt_vars, ps_vars, by_vars, set_vars>>

NextChars == CallI128FromChars \/ CallU128FromChars

SpecChars == InitChars /\ [][NextChars]_vars

SignLen(buf) == IF HasSign(buf) THEN 1 ELSE 0

\* an optional sign followed by at least one digit
SignedDigitPrefix(buf) == DigitRunLen(buf, SignLen(buf) + 1) >= 1

\* C4: over a range that starts with an optional sign and at least one
\* digit, i128_from_chars returns the length of the sign and of the maximal
\* run of digits, within the range, and writes what i128_of_string yields
\* for exactly these characters
ConsumesSignedPrefix ==
  (fc_pc = "done" /\ fc_fn = "i128_from_chars" /\ SignedDigitPrefix(fc_buf)) =>
    LET n == SignLen(fc_buf) + DigitRunLen(fc_buf, SignLen(fc_buf) + 1)
        r == i128_of_string(SubSeq(fc_buf, 1, n))
    IN /\ n <= Len(fc_buf)
       /\ r.st = "ok" =>
            /\ fc_ret.st = "ok" /\ fc_ret.written
            /\ fc_ret.count = n
            /\ fc_ret.res = r.val

\* "-123abc": three digits after a sign consumed, "abc" left
ConsumesSignedPrefixWitness ==
  /\ fc_pc = "done" /\ fc_fn = "i128_from_chars"
  /\ fc_buf = <<"-", "1", "2", "3", "a", "b", "c">>
  /\ fc_ret.st = "ok" /\ fc_ret.count = 4
  /\ fc_ret.res = MkInt(TRUE, <<1, 2, 3>>)
  /\ SubSeq(fc_buf, fc_ret.count + 1, Len(fc_buf)) = <<"a", "b", "c">>

\* C5: over a range that starts with a sign and at least one digit,
\* u128_from_chars returns 1 + the length of the digit run and writes the
\* value i128_from_chars writes
UnsignedConsumesSign ==
  (fc_pc = "done" /\ fc_fn = "u128_from_chars" /\ HasSign(fc_buf)
     /\ SignedDigitPrefix(fc_buf) /\ i128_from_chars(fc_buf).st = "ok") =>
    /\ fc_ret.st = "ok"
    /\ fc_ret.count = 1 + DigitRunLen(fc_buf, 2)
    /\ fc_ret.res = CastU128(i128_from_chars(fc_buf).res)

\* the consumable prefix holds no digit
NoDigitPrefix(buf) == DigitRunLen(buf, SignLen(buf) + 1) = 0

\* C8: on a range whose consumable prefix holds no digit both functions
\* fail at one of their own assertions, before i128_of_string is called
\* and before *res is written
FailsAtOwnAssert ==
  (fc_pc = "done" /\ NoDigitPrefix(fc_buf)) =>
    /\ fc_ret.st \in {"assert(stop > start)", "assert(count > 0)"}
    /\ ~fc_ret.called
    /\ ~fc_ret.written

----------------------------------------------------------------------------
(* Bytes.h: by_heap holds the allocated Byte[] arrays, by_objs the Bytes   *)
(* values built so far, by_out what the last operation gave                *)

MaxBuffers == 2

MaxObjs == 2

MaxSize == 5

MaxOffset == 3

ByteStrings == {<<>>, <<"a", "b">>, <<"h", "e", "l", "l", "o">>}

\* what a read past the end of an array may find
JunkBytes == {"?", "\\0"}

\* Bytes(std::shared_ptr<Byte[]>, size_t, size_t): the three fields, as given
BytesView(buffer_, size_, offset_) ==
  [buffer |-> buffer_, size |-> size_, offset |-> offset_]

\* Bytes(std::string): a fresh array of s.size() bytes holding s, offset 0
BytesOfString(heap, s) ==
  [heap |-> Append(heap, s),
   obj |-> [buffer |-> Len(heap) + 1, size |-> Len(s), offset |-> 0]]

Capacity(heap, b) == Len(heap[b.buffer])

\* toString: the size bytes from offset on; a read past the array is
\* undefined: the process may die, or the read finds whatever lies there
toStringOutcomes(heap, b) ==
  LET cap == Capacity(heap, b)
      last == IF b.offset + b.size <= cap THEN b.offset + b.size ELSE cap
      inside == SubSeq(heap[b.buffer], b.offset + 1, last)
      excess == b.size - Len(inside)
  IN IF excess = 0 THEN {[op |-> "toString", st |-> "ok", s |-> inside]}
     ELSE {[op |-> "toString", st |-> "crash", s |-> <<>>]}
          \cup {[op |-> "toString", st |-> "out_of_bounds_read",
                 s |-> inside \o Repeat(excess, j)] : j \in JunkBytes}

InitBytes ==
  /\ by_heap = <<>>
  /\ by_objs = {}
  /\ by_out = [op |-> "none", st |-> "none", s |-> <<>>]
  /\ FmtIdle /\ PsIdle /\ FcIdle /\ SetIdle

ConstructFromString ==
  /\ Len(by_heap) < MaxBuffers
  /\ Cardinality(by_objs) < MaxObjs
  /\ \E s \in ByteStrings :
       LET r == BytesOfString(by_heap, s) IN
       /\ by_heap' = r.heap
       /\ by_objs' = by_objs \cup {r.obj}
       /\ by_out' = [op |-> "Bytes(string)", st |-> "constructed", s |-> <<>>]
  /\ UNCHANGED <<fmt_vars, ps_vars, fc_vars, set_vars>>

ConstructView ==
  /\ Cardinality(by_objs) < MaxObjs
  /\ \E src \in by_objs, size_ \in 0..MaxSize, offset_ \in 0..MaxOffset :
       /\ by_objs' = by_objs \cup {BytesView(src.buffer, size_, offset_)}
       /\ by_out' = [op |-> "Bytes(buffer, size, offset)", st |-> "constructed",
                     s |-> <<>>]
  /\ UNCHANGED <<by_heap, fmt_vars, ps_vars, fc_vars, set_vars>>

CallToString ==
  /\ \E b \in by_objs : by_out' \in toStringOutcomes(by_heap, b)
  /\ UNCHANGED <<by_heap, by_objs, fmt_vars, ps_vars, fc_vars, set_vars>>

NextBytes == ConstructFromString \/ ConstructView \/ CallToString

SpecBytes == InitBytes /\ [][NextBytes]_vars

\* C6: every Bytes value that exists lies within its storage, a view that
\* would not being refused with OutOfRange
ViewWithinCapacity ==
  /\ \A b \in by_objs : b.offset + b.size <= Capacity(by_heap, b)
  /\ by_out.st # "out_of_bounds_read" /\ by_out.st # "crash"

----------------------------------------------------------------------------
(* SimpleSet.h and SlidingWindow.h: one object of each, given the same     *)
(* calls; set_ops is the calls so far, set_ret what the last call returned *)

MaxOps == 4

Elems == {"x1", "x2", "x3"}

SimpleSet_insert(l, x) == Append(l, x)

SimpleSet_lastUpdate(l) == <<l[Len(l)], <<>>>>

SimpleSet_size(l) == Len(l)

\* a window that keeps the two youngest elements
SlidingWindow_insert_evicting(l, x) ==
  IF Len(l) >= 2 THEN Append(Tail(l), x) ELSE Append(l, x)

SlidingWindow_insert(l, x) == Append(l, x)

SlidingWindow_lastUpdate(l) == <<l[Len(l)], <<>>>>

SlidingWindow_size(l) == Len(l)

\* l.back() of an empty list is undefined: any element, or the process dies
BackOfEmpty == {<<x, <<>>>> : x \in Elems} \cup {<<"crash">>}

InitSet ==
  /\ set_simple = <<>>
  /\ set_window = <<>>
  /\ set_ops = <<>>
  /\ set_ret = [simple |-> <<"none">>, window |-> <<"none">>]
  /\ FmtIdle /\ PsIdle /\ FcIdle /\ ByIdle

Insert ==
  /\ Len(set_ops) < MaxOps
  /\ \E x \in Elems :
       /\ set_simple' = SimpleSet_insert(set_simple, x)
       /\ set_window' = SlidingWindow_insert(set_window, x)
       /\ set_ops' = Append(set_ops, <<"insert", x>>)
  /\ set_ret' = [simple |-> <<"void">>, window |-> <<"void">>]
  /\ UNCHANGED <<fmt_vars, ps_vars, fc_vars, by_vars>>

LastUpdate ==
  /\ Len(set_ops) < MaxOps
  /\ \E rs \in (IF set_simple = <<>> THEN BackOfEmpty
                ELSE {SimpleSet_lastUpdate(set_simple)}),
        rw \in (IF set_window = <<>> THEN BackOfEmpty
                ELSE {SlidingWindow_lastUpdate(set_window)}) :
       set_ret' = [simple |-> rs, window |-> rw]
  /\ set_ops' = Append(set_ops, <<"lastUpdate">>)
  /\ UNCHANGED <<set_simple, set_window, fmt_vars, ps_vars, fc_vars, by_vars>>

Size ==
  /\ Len(set_ops) < MaxOps
  /\ set_ret' = [simple |-> <<SimpleSet_size(set_simple)>>,
                 window |-> <<SlidingWindow_size(set_window)>>]
  /\ set_ops' = Append(set_ops, <<"size">>)
  /\ UNCHANGED <<set_simple, set_window, fmt_vars, ps_vars, fc_vars, by_vars>>

NextSet == Insert \/ LastUpdate \/ Size

SpecSet == InitSet /\ [][NextSet]_vars

\* the arguments of the insert calls of a history, in order
RECURSIVE Inserted(_)
Inserted(ops) ==
  IF ops = <<>> THEN <<>>
  ELSE IF Head(ops)[1] = "insert" THEN <<Head(ops)[2]>> \o Inserted(Tail(ops))
  ELSE Inserted(Tail(ops))

\* C7: after n >= 1 inserts x1..xn among lastUpdate and size calls, both
\* objects hold x1..xn (nothing evicted, nothing changed by the other
\* calls), size() is n, lastUpdate() is (xn, empty list), and the two
\* objects return the same
SetContract ==
  LET ins == Inserted(set_ops)
      n == Len(ins)
      last == set_ops[Len(set_ops)]
  IN /\ set_simple = ins
     /\ set_window = ins
     /\ (n >= 1 /\ last[1] = "size") =>
          set_ret.simple = <<n>> /\ set_ret.window = <<n>>
     /\ (n >= 1 /\ last[1] = "lastUpdate") =>
          /\ set_ret.simple = <<ins[n], <<>>>>
          /\ set_ret.window = <<ins[n], <<>>>>
     /\ n >= 1 => set_ret.simple = set_ret.window

\* x1, x2, x3 inserted in this order, then lastUpdate reports x3
SetContractWitness ==
  /\ set_ops = <<<<"insert", "x1">>, <<"insert", "x2">>, <<"insert", "x3">>,
                 <<"lastUpdate">>>>
  /\ set_ret.window = <<"x3", <<>>>>
  /\ set_ret.simple = <<"x3", <<>>>>
  /\ SimpleSet_size(set_simple) = 3 /\ SlidingWindow_size(set_window) = 3

====
